---- MODULE Spec2Model ----
(***************************************************************************)
(* The action provider of cfde_ap: the Flask routes of api.py (run,        *)
(* status, cancel, release), the execution units they spawn, and the       *)
(* DynamoDB status table of utils.py.                                      *)
(*                                                                         *)
(* Every store operation (a scan, a get_item, a put_item, a delete_item)   *)
(* is atomic; a handler that makes several of them whose interleaving with *)
(* other handlers matters takes one step per store operation.              *)
(***************************************************************************)
EXTENDS Integers, FiniteSets, Sequences, Bags, TLC

VARIABLES
    store,      \* the DynamoDB table TBL: action_id -> item, or NoRecord
    issued,     \* the action_ids put_item has ever created
    handler,    \* the bag of API requests in flight, one per busy worker
    unit,       \* the multiprocessing.Process spawned for each action_id
    error_log,  \* the content of ERROR.log
    resp,       \* the response of the step just taken, NoResp otherwise
    disk        \* the files under CONFIG["DATA_DIR"]: path -> content

vars == <<store, issued, handler, unit, error_log, resp, disk>>

----------------------------------------------------------------------------
\* Bounds of the model

\* how many action_ids the id generator can hand out
MaxActions == 2
\* how many API requests are handled concurrently
NumHandlers == 2

\* how many keys of the table one page of a scan examines
PageSize == 1

ActionIds == 1..MaxActions
RequestIds == {"r1", "r2"}
\* request.auth.identities of the callers that pass before_request
Callers == {{"alice"}, {"bob"}}
\* the callers that POST to /run
Submitters == {{"alice"}}
\* the catalog identifiers the catalog backend hands back
CatalogIds == {0, 7}

NoRecord == [absent |-> TRUE]
NoResp == [absent |-> TRUE]
NoId == [tag |-> "none", val |-> 0]

\* request.auth.effective_identity
effective_identity(identities) == CHOOSE p \in identities : TRUE

----------------------------------------------------------------------------
\* Requests

\* catalog_id: "none", "id" (a catalog number) or "keyword" (a key of
\* KNOWN_CATALOGS); server: "none", "match" or "other" (relative to the
\* keyword's server)
Body(op, url, cat, acls, srv) ==
    [operation |-> op, data_url |-> url, catalog_id |-> cat,
     catalog_acls |-> acls, server |-> srv]

NoBody == Body("none", FALSE, "none", FALSE, "none")

\* deadline: "none", or "early"/"late" relative to estimated_completion
Request(rid, body, manage, monitor, deadline) ==
    [request_id |-> rid, body |-> body, manage_by |-> manage,
     monitor_by |-> monitor, deadline |-> deadline]

\* "manage_by"/"monitor_by" of the request: absent, or a list of principals
Absent == [kind |-> "absent", val |-> {}]
JustBob == [kind |-> "list", val |-> {"bob"}]
EmptyList == [kind |-> "list", val |-> {}]

\* the requests POSTed to /run
Requests ==
    { Request("r1", Body("ingest", TRUE, "none", FALSE, "none"),
              Absent, Absent, "none"),
      Request("r1", Body("ingest", FALSE, "none", FALSE, "none"),
              Absent, Absent, "none"),
      Request("r2", Body("modify", FALSE, "id", TRUE, "none"),
              Absent, JustBob, "late"),
      Request("r1", Body("ingest", TRUE, "none", FALSE, "none"),
              JustBob, Absent, "none"),
      Request("r2", Body("restore", TRUE, "keyword", FALSE, "other"),
              Absent, Absent, "none"),
      Request("r2", Body("ingest", TRUE, "none", FALSE, "none"),
              Absent, Absent, "early"),
      Request("r2", Body("ingest", TRUE, "none", FALSE, "none"),
              EmptyList, Absent, "none") }

----------------------------------------------------------------------------
\* utils.py: the status table

read_action_status(action_id) == store[action_id]

\* table.scan(**scan_args): one page of the scan examines the items of
\* PageSize keys after ExclusiveStartKey and returns those that pass the
\* FilterExpression, with the last key examined as LastEvaluatedKey if keys
\* remain (0 stands for its absence)
scan(request_id, ExclusiveStartKey) ==
    LET last == ExclusiveStartKey + PageSize
    IN  [Items |-> { a \in ActionIds :
                       /\ ExclusiveStartKey < a /\ a <= last
                       /\ store[a] # NoRecord
                       /\ store[a].request_id = request_id },
         LastEvaluatedKey |-> IF last < MaxActions THEN last ELSE 0]

\* a scan loop that stops after its first page
more_pages_never(scan_res) == FALSE

\* if LastEvaluatedKey exists, need to page through more results
more_pages(scan_res) == scan_res.LastEvaluatedKey # 0

\* the loop of read_action_by_request: result_entries.extend(Items), page
\* after page
RECURSIVE result_entries(_, _)
result_entries(request_id, ExclusiveStartKey) ==
    LET scan_res == scan(request_id, ExclusiveStartKey)
    IN  IF more_pages(scan_res)
        THEN scan_res.Items
             \cup result_entries(request_id, scan_res.LastEvaluatedKey)
        ELSE scan_res.Items

\* the entries read_action_by_request has collected when it decides: none is
\* NotFound, one is returned, two or more are InternalError
read_action_by_request(request_id) == result_entries(request_id, 0)

\* str(bson.ObjectId()): an identifier carries its creation time, so one
\* drawn after an item was created differs from that item's id; two drawn
\* before either is stored may coincide
ObjectId == ActionIds \ issued

\* the candidates on which the probing loop of generate_action_id exits
generate_action_id == { a \in ObjectId : read_action_status(a) = NoRecord }

\* DynamoDB keeps a number as a Decimal
to_item(status) ==
    IF status.details.deriva_id.tag = "int"
    THEN [status EXCEPT !.details.deriva_id.tag = "Decimal"]
    ELSE status

\* mdf_toolbox.dict_merge(base, addition) on "details": base keys
\* unchanged, addition keys added
merge_field(base, addition, none) == IF base # none THEN base ELSE addition

merge_details(base, addition) ==
    [message |-> merge_field(base.message, addition.message, "none"),
     error |-> merge_field(base.error, addition.error, "none"),
     deriva_id |-> merge_field(base.deriva_id, addition.deriva_id, NoId)]

\* dict_merge(updates, old_status): updates carry "status" and "details"
dict_merge(updates, old_status) ==
    [old_status EXCEPT !.status = updates.status,
                       !.details = merge_details(updates.details, @)]

translate_status(raw_status) ==
    IF raw_status.details.deriva_id.tag # "none"
       /\ raw_status.details.deriva_id.val # 0
    THEN [raw_status EXCEPT !.details.deriva_id.tag = "int"]
    ELSE raw_status

----------------------------------------------------------------------------
\* api.py: helpers of the routes

\* request.auth.check_authorization(allowed_principals)
check_authorization(identities, allowed) == identities \cap allowed # {}

\* run() with its checks of the body left out
run_validate_skipped(body) == "ok"

\* the checks of run() on the body, before anything is looked up
run_validate(body) ==
    IF body.operation \in {"ingest", "restore"} /\ ~body.data_url
    THEN "InvalidRequest"
    ELSE IF body.operation = "modify"
            /\ (body.catalog_id = "none" \/ ~body.catalog_acls)
         THEN "InvalidRequest"
         ELSE "ok"

\* job["manage_by"] / job["monitor_by"] after the override and list()
job_principals(identities, override) ==
    IF override.kind = "absent" THEN identities ELSE override.val

\* the job run() builds for a new request
new_job(caller, req) ==
    [action_id |-> 0,
     request_id |-> req.request_id,
     status |-> "ACTIVE",
     manage_by |-> job_principals(caller, req.manage_by),
     monitor_by |-> job_principals(caller, req.monitor_by),
     creator_id |-> effective_identity(caller),
     release_after |-> "P30D",
     details |-> [message |-> "none", error |-> "none", deriva_id |-> NoId]]

\* create_action_status fills in the id and the default details
with_action_id(job, action_id) ==
    [job EXCEPT !.action_id = action_id,
                !.details.message = "Action started"]

\* start_action raises ValueError for a known catalog keyword whose server
\* does not match, before any process is spawned
start_action_raises(body) ==
    body.catalog_id = "keyword" /\ body.server = "other"

\* run() without its check of the deadline
deadline_refuses_never(req) == FALSE

\* run(): a deadline before estimated_completion is refused
deadline_refuses(req) == req.deadline = "early"

\* what a route answers: the error raised or "ok" with the action returned,
\* with the route's arguments and the status it read first (seen)
Response(op, at, caller, rid, body, aid, kind, action, seen) ==
    [op |-> op, at |-> at, caller |-> caller, rid |-> rid, body |-> body,
     aid |-> aid, kind |-> kind, action |-> action, seen |-> seen]

----------------------------------------------------------------------------
\* State

\* a request in flight: where its handler stands and the handler's locals
InFlight(pc, caller, body, job, aid, seen) ==
    [pc |-> pc, caller |-> caller, body |-> body, job |-> job, aid |-> aid,
     seen |-> seen]

NoUnit == [pc |-> "none", old |-> NoRecord]

\* a path nothing was written to, or a file cut short; otherwise the content
\* of cfde-backup.zip is the action_id of the unit that downloaded it
NoFile == 0

\* os.listdir of a data directory nothing was unpacked to
NoFiles == <<>>

\* DATA_DIR before any unit has run: cfde-backup.zip of the restore units and
\* one directory per action_id of the ingest units
EmptyDisk ==
    [backup |-> NoFile, data_dir |-> [a \in ActionIds |-> NoFiles]]

Init ==
    /\ store = [a \in ActionIds |-> NoRecord]
    /\ issued = {}
    /\ handler = EmptyBag
    /\ unit = [a \in ActionIds |-> NoUnit]
    /\ error_log = <<>>
    /\ resp = NoResp
    /\ disk = EmptyDisk

\* a unit that reports a failure as INACTIVE
TerminalUpdatesInactive ==
    { [status |-> "SUCCEEDED",
       details |-> [message |-> "successful", error |-> "False",
                    deriva_id |-> [tag |-> "int", val |-> n]]]
      : n \in CatalogIds }
    \cup
    { [status |-> "INACTIVE",
       details |-> [message |-> "none", error |-> "error text",
                    deriva_id |-> NoId]] }

\* what an execution unit hands to update_action_status when it ends
TerminalUpdates ==
    { [status |-> "SUCCEEDED",
       details |-> [message |-> "successful", error |-> "False",
                    deriva_id |-> [tag |-> "int", val |-> n]]]
      : n \in CatalogIds }
    \cup
    { [status |-> "FAILED",
       details |-> [message |-> "none", error |-> "error text",
                    deriva_id |-> NoId]] }

\* a worker is free to take a request
WorkerFree == BagCardinality(handler) < NumHandlers
Begin(me) == handler' = handler (+) SetToBag({me})
Continue(me, next) == handler' = (handler (-) SetToBag({me})) (+) SetToBag({next})
Finish(me) == handler' = handler (-) SetToBag({me})

Respond(r) == resp' = r
Silent == resp' = NoResp

----------------------------------------------------------------------------
\* POST /run

\* run(), up to the lookup by request_id and the construction of the job
RunLookup(caller, req) ==
    /\ WorkerFree
    /\ LET found == read_action_by_request(req.request_id)
           answer(aid, kind, action, seen) ==
               Response("run", "lookup", caller, req.request_id, req.body,
                        aid, kind, action, seen)
       IN
       IF run_validate(req.body) # "ok"
       THEN /\ Respond(answer(0, "InvalidRequest", NoRecord, NoRecord))
            /\ UNCHANGED handler
       ELSE IF Cardinality(found) >= 2
       THEN /\ Respond(answer(0, "InternalError", NoRecord, NoRecord))
            /\ UNCHANGED handler
       ELSE IF Cardinality(found) = 1
       THEN LET a == CHOOSE x \in found : TRUE
            IN  /\ Respond(answer(a, "ok", translate_status(store[a]), store[a]))
                /\ UNCHANGED handler
       ELSE IF deadline_refuses(req)
       THEN /\ Respond(answer(0, "InvalidRequest", NoRecord, NoRecord))
            /\ UNCHANGED handler
       ELSE /\ Begin(InFlight("generate", caller, req.body,
                              new_job(caller, req), 0, NoRecord))
            /\ Silent
    /\ UNCHANGED <<store, issued, unit, error_log, disk>>

\* create_action_status: generate_action_id returns a candidate it probed
RunGenerate(me) ==
    /\ me.pc = "generate"
    /\ \E a \in generate_action_id :
           Continue(me, [me EXCEPT !.pc = "create", !.aid = a])
    /\ Silent
    /\ UNCHANGED <<store, issued, unit, error_log, disk>>

\* put_item(..., ConditionExpression=Attr("action_id").not_exists())
condition_holds(action_id) == store[action_id] = NoRecord

\* create_action_status: the conditional put_item; then start_action and the
\* 202 response of run()
RunCreate(me) ==
    /\ me.pc = "create"
    /\ LET job == with_action_id(me.job, me.aid)
           answer(kind, action) ==
               Response("run", "create", me.caller, job.request_id, me.body,
                        me.aid, kind, action, NoRecord)
       IN
       IF ~condition_holds(me.aid)
       THEN \* any exception of put_item is raised as ServiceError
            /\ Respond(answer("ServiceError", NoRecord))
            /\ UNCHANGED <<store, issued, unit>>
       ELSE /\ store' = [store EXCEPT ![me.aid] = to_item(job)]
            /\ issued' = issued \cup {me.aid}
            /\ IF start_action_raises(me.body)
               THEN /\ Respond(answer("ValueError", NoRecord))
                    /\ UNCHANGED unit
               ELSE /\ unit' = [unit EXCEPT ![me.aid].pc = "run"]
                    /\ Respond(answer("ok", translate_status(job)))
    /\ Finish(me)
    /\ UNCHANGED <<error_log, disk>>

----------------------------------------------------------------------------
\* GET /<action_id>/status

\* status() checking the caller against manage_by
status_principals_manage(status) == status.manage_by

\* the principals status() checks the caller against
status_principals(status) == status.monitor_by

Status(caller, action_id) ==
    LET status == read_action_status(action_id)
        answer(kind, action) ==
            Response("status", "-", caller, "none", NoBody, action_id, kind,
                     action, status)
    IN
    /\ IF status = NoRecord
       THEN Respond(answer("NotFound", NoRecord))
       ELSE IF ~check_authorization(caller, status_principals(status))
       THEN Respond(answer("NotAuthorized", NoRecord))
       ELSE Respond(answer("ok", translate_status(status)))
    /\ UNCHANGED <<store, issued, handler, unit, error_log, disk>>

----------------------------------------------------------------------------
\* POST /<action_id>/cancel

\* the principals cancel() checks the caller against
cancel_principals(status) == status.manage_by

\* the statuses cancel() refuses
cancel_refuses(status) == status \in {"SUCCEEDED", "FAILED"}

\* cancel(), up to the check of the status it read
CancelCheck(caller, action_id) ==
    /\ WorkerFree
    /\ LET status == read_action_status(action_id)
           answer(kind) ==
               Response("cancel", "check", caller, "none", NoBody, action_id,
                        kind, NoRecord, status)
       IN
       IF status = NoRecord
       THEN /\ Respond(answer("NotFound"))
            /\ UNCHANGED handler
       ELSE IF ~check_authorization(caller, cancel_principals(status))
       THEN /\ Respond(answer("NotAuthorized"))
            /\ UNCHANGED handler
       ELSE IF cancel_refuses(translate_status(status).status)
       THEN /\ Respond(answer("InvalidState"))
            /\ UNCHANGED handler
       ELSE /\ Begin(InFlight("cancel", caller, NoBody, NoRecord, action_id,
                              status))
            /\ Silent
    /\ UNCHANGED <<store, issued, unit, error_log, disk>>

\* cancel_action recording the cancellation in the table
cancel_action_marks(action_id) ==
    [store EXCEPT ![action_id].status = "FAILED"]

\* cancel_action is a stub: the table after it is the table before it
cancel_action(action_id) == store

\* cancel() returning the status it checked instead of reading again
cancel_returns_checked(me) == me.seen

\* the status cancel() returns: the one it reads after cancel_action
cancel_returns(me) == read_action_status(me.aid)

\* cancel(): cancel_action, then the status is read again and returned
CancelReread(me) ==
    /\ me.pc = "cancel"
    /\ LET new_status == cancel_returns(me)
           answer(kind, action) ==
               Response("cancel", "reread", me.caller, "none", NoBody, me.aid,
                        kind, action, me.seen)
       IN
       /\ store' = cancel_action(me.aid)
       /\ IF new_status = NoRecord
          THEN Respond(answer("NotFound", NoRecord))
          ELSE Respond(answer("ok", translate_status(new_status)))
    /\ Finish(me)
    /\ UNCHANGED <<issued, unit, error_log, disk>>

----------------------------------------------------------------------------
\* POST /<action_id>/release

\* release() checking the caller against monitor_by
release_principals_monitor(status) == status.monitor_by

\* the principals release() checks the caller against
release_principals(status) == status.manage_by

\* release() refusing only INACTIVE
release_refuses_inactive(status) == status \in {"INACTIVE"}

\* the statuses release() refuses
release_refuses(status) == status \in {"ACTIVE", "INACTIVE"}

Release(caller, action_id) ==
    LET status == read_action_status(action_id)
        answer(kind, action) ==
            Response("release", "-", caller, "none", NoBody, action_id, kind,
                     action, status)
    IN
    /\ IF status = NoRecord
       THEN /\ Respond(answer("NotFound", NoRecord))
            /\ UNCHANGED store
       ELSE IF ~check_authorization(caller, release_principals(status))
       THEN /\ Respond(answer("NotAuthorized", NoRecord))
            /\ UNCHANGED store
       ELSE IF release_refuses(translate_status(status).status)
       THEN /\ Respond(answer("InvalidState", NoRecord))
            /\ UNCHANGED store
       ELSE \* delete_action_status: read, delete_item, read again
            /\ store' = [store EXCEPT ![action_id] = NoRecord]
            /\ Respond(answer("ok", translate_status(status)))
    /\ UNCHANGED <<issued, handler, unit, error_log, disk>>

----------------------------------------------------------------------------
\* The execution unit of an action (action_restore, action_ingest,
\* action_modify)

\* the unit has done its work and calls update_action_status, which first
\* reads the old status
UnitRead(action_id) ==
    /\ unit[action_id].pc = "run"
    /\ LET old_status == read_action_status(action_id)
       IN
       IF old_status = NoRecord
       THEN \* NotFound is caught by the unit and written to ERROR.log
            /\ unit' = [unit EXCEPT ![action_id].pc = "end"]
            /\ error_log' = <<action_id>>
       ELSE /\ unit' = [unit EXCEPT ![action_id] =
                    [pc |-> "put", old |-> old_status]]
            /\ UNCHANGED error_log
    /\ Silent
    /\ UNCHANGED <<store, issued, handler, disk>>

\* update_action_status: put_item(Item=full_updates) succeeds
UnitPut(action_id) ==
    /\ unit[action_id].pc = "put"
    /\ \E updates \in TerminalUpdates :
           store' = [store EXCEPT ![action_id] =
                        to_item(dict_merge(updates, unit[action_id].old))]
    /\ unit' = [unit EXCEPT ![action_id] = [pc |-> "end", old |-> NoRecord]]
    /\ Silent
    /\ UNCHANGED <<issued, handler, error_log, disk>>

\* update_action_status: put_item raises; the unit writes ERROR.log (mode 'w')
UnitPutFails(action_id) ==
    /\ unit[action_id].pc = "put"
    /\ unit' = [unit EXCEPT ![action_id] = [pc |-> "end", old |-> NoRecord]]
    /\ error_log' = <<action_id>>
    /\ Silent
    /\ UNCHANGED <<store, issued, handler, disk>>

----------------------------------------------------------------------------

Next ==
    \/ \E caller \in Submitters, req \in Requests : RunLookup(caller, req)
    \/ \E me \in BagToSet(handler) : RunGenerate(me)
    \/ \E me \in BagToSet(handler) : RunCreate(me)
    \/ \E caller \in Callers, a \in ActionIds : Status(caller, a)
    \/ \E caller \in Callers, a \in ActionIds : CancelCheck(caller, a)
    \/ \E me \in BagToSet(handler) : CancelReread(me)
    \/ \E caller \in Callers, a \in ActionIds : Release(caller, a)
    \/ \E a \in ActionIds : UnitRead(a)
    \/ \E a \in ActionIds : UnitPut(a)
    \/ \E a \in ActionIds : UnitPutFails(a)

Spec == Init /\ [][Next]_vars

----------------------------------------------------------------------------
\* The execution units stage by stage (action_restore, action_ingest,
\* action_modify), each on the record run() created for it

\* longest output of the restore tool, in tokens
MaxLen == 3

Operations == {"restore", "ingest", "modify"}

\* restore_message in tokens: the markers "Restore of catalog" (R) and
\* "completed successfully" (CS), a number, the path separator, other text
Tokens == {"R", "CS", "42", "/", "x"}

Numerals == {"42"}

Messages == UNION { [1..n -> Tokens] : n \in 0..MaxLen }

\* int() of a numeral
int(numeral) == IF numeral = "42" THEN 42 ELSE 0

\* bytes.split(sep)[-1]: what follows the last sep, everything if there is none
split_last(text, sep) ==
    LET at == { i \in 1..Len(text) : text[i] = sep }
        from == IF at = {} THEN 1
                ELSE (CHOOSE i \in at : \A j \in at : j <= i) + 1
    IN  SubSeq(text, from, Len(text))

\* bytes.split(sep)[0]: what precedes the first sep, everything if there is
\* none
split_first(text, sep) ==
    LET at == { i \in 1..Len(text) : text[i] = sep }
        to == IF at = {} THEN Len(text)
              ELSE (CHOOSE i \in at : \A j \in at : i <= j) - 1
    IN  SubSeq(text, 1, to)

\* action_restore: the parsing of the tool's output; ok is FALSE where the
\* code raises (no success marker, or int() of the last path segment fails)
parse_restore_message(restore_message) ==
    IF \A i \in 1..Len(restore_message) : restore_message[i] # "CS"
    THEN [ok |-> FALSE, deriva_id |-> 0]
    ELSE LET deriva_link ==
                 split_first(split_last(restore_message, "R"), "CS")
             segment == split_last(deriva_link, "/")
         IN  IF Len(segment) = 1 /\ segment[1] \in Numerals
             THEN [ok |-> TRUE, deriva_id |-> int(segment[1])]
             ELSE [ok |-> FALSE, deriva_id |-> 0]

\* the stages of a unit, in the order of its code
first_stage(op) ==
    CASE op = "restore" -> "token"
      [] op = "ingest" -> "setup"
      [] op = "modify" -> "backend"

next_stage(op, pc) ==
    CASE pc = "token" -> "setup"
      [] pc = "setup" -> "download"
      [] pc = "download" -> IF op = "restore" THEN "tool" ELSE "schema"
      [] pc = "schema" -> "backend"

\* error_status of the except blocks
error_status ==
    [status |-> "FAILED",
     details |-> [message |-> "none", error |-> "error text",
                  deriva_id |-> NoId]]

\* status of the "Successful ..." blocks
success_status(deriva_id) ==
    [status |-> "SUCCEEDED",
     details |-> [message |-> "successful", error |-> "False",
                  deriva_id |-> [tag |-> "int", val |-> deriva_id]]]

\* an except block that does not open ERROR.log
write_error_log_skipped(action_id) == error_log

\* open("ERROR.log", 'w') and write: the file holds this report only
write_error_log(action_id) == <<action_id>>

\* the process start_action spawned for a new Action
Process(op) ==
    [pc |-> first_stage(op), op |-> op, restore_message |-> <<>>,
     schema_file |-> "File not found", deriva_id |-> 0, attempts |-> 0,
     raised |-> 0]

\* the record run() stored for a request with this operation
created(action_id, op) ==
    to_item(with_action_id(
        new_job({"alice"},
                Request("r1", Body(op, TRUE, "id", TRUE, "none"),
                        Absent, Absent, "none")),
        action_id))

InitUnit ==
    /\ unit \in [ActionIds -> { Process(op) : op \in Operations }]
    /\ store = [a \in ActionIds |-> created(a, unit[a].op)]
    /\ issued = ActionIds
    /\ handler = EmptyBag
    /\ error_log = <<>>
    /\ resp = NoResp
    /\ disk = EmptyDisk

\* the unit goes on to pc, leaving the table and ERROR.log alone
Goes(action_id, pc) ==
    /\ unit' = [unit EXCEPT ![action_id].pc = pc]
    /\ UNCHANGED <<store, error_log>>

\* update_action_status(TBL, action_id, updates) returns
Updated(action_id, updates) ==
    /\ store' = [store EXCEPT ![action_id] =
                    to_item(dict_merge(updates, read_action_status(action_id)))]
    /\ unit' = [unit EXCEPT ![action_id].pc = "end",
                            ![action_id].attempts = @ + 1]

\* update_action_status raises and the except block writes ERROR.log
Logged(action_id) ==
    /\ error_log' = write_error_log(action_id)
    /\ unit' = [unit EXCEPT ![action_id].pc = "end",
                            ![action_id].attempts = @ + 1,
                            ![action_id].raised = @ + 1]
    /\ UNCHANGED store

\* action_restore: get_deriva_token(), outside every try block
UnitToken(action_id) ==
    /\ unit[action_id].pc = "token"
    /\ \/ Goes(action_id, next_stage("restore", "token"))
       \/ Goes(action_id, "dead")
    /\ UNCHANGED <<issued, handler, resp, disk>>

\* the try block of setup: on an exception the unit goes to report FAILED
UnitStage(action_id) ==
    /\ unit[action_id].pc = "setup"
    /\ \/ Goes(action_id, next_stage(unit[action_id].op, unit[action_id].pc))
       \/ Goes(action_id, "report")
    /\ UNCHANGED <<issued, handler, resp, disk>>

\* the JSON files a bag may hold in its data directory, as os.listdir
\* returns them
Listings ==
    { <<>>, <<"a.json">>, <<"b.json">>, <<"a.json", "b.json">>,
      <<"b.json", "a.json">> }

\* the try block of the download. action_restore writes what it gets from
\* the url to cfde-backup.zip, which open(file_path, 'wb') empties first;
\* action_ingest unpacks the bag of the url under its own data_dir
UnitDownload(action_id) ==
    /\ unit[action_id].pc = "download"
    /\ LET op == unit[action_id].op
       IN
       IF op = "restore"
       THEN \/ /\ disk' = [disk EXCEPT !.backup = action_id]
               /\ Goes(action_id, next_stage(op, "download"))
            \/ /\ disk' = [disk EXCEPT !.backup = NoFile]
               /\ Goes(action_id, "report")
            \/ /\ UNCHANGED disk
               /\ Goes(action_id, "report")
       ELSE \/ \E bag \in Listings :
                  /\ disk' = [disk EXCEPT !.data_dir[action_id] = bag]
                  /\ Goes(action_id, next_stage(op, "download"))
            \/ /\ UNCHANGED disk
               /\ Goes(action_id, "report")
    /\ UNCHANGED <<issued, handler, resp>>

\* action_ingest: the try block that looks for the schema file: the first
\* non-hidden .json file of the listing, IndexError if there is none
UnitSchema(action_id) ==
    /\ unit[action_id].pc = "schema"
    /\ LET schema_files == disk.data_dir[action_id]
       IN  IF schema_files = <<>>
           THEN Goes(action_id, "report")
           ELSE unit' = [unit EXCEPT
                    ![action_id].pc = next_stage("ingest", "schema"),
                    ![action_id].schema_file = schema_files[1]]
                /\ UNCHANGED <<store, error_log>>
    /\ UNCHANGED <<issued, handler, resp, disk>>

\* action_restore: subprocess.run of deriva-restore-cli
UnitTool(action_id) ==
    /\ unit[action_id].pc = "tool"
    /\ \/ \E restore_message \in Messages :
              /\ unit' = [unit EXCEPT
                     ![action_id].pc = "parse",
                     ![action_id].restore_message = restore_message]
              /\ UNCHANGED <<store, error_log>>
       \/ Goes(action_id, "report")
    /\ UNCHANGED <<issued, handler, resp, disk>>

\* action_restore: the try block that parses restore_message
UnitParse(action_id) ==
    /\ unit[action_id].pc = "parse"
    /\ LET parsed == parse_restore_message(unit[action_id].restore_message)
       IN  unit' = [unit EXCEPT
               ![action_id].pc = IF parsed.ok THEN "finish" ELSE "report",
               ![action_id].deriva_id = parsed.deriva_id]
    /\ UNCHANGED <<store, issued, handler, error_log, resp, disk>>

\* action_ingest, action_modify: the call of the catalog backend, which
\* returns a catalog, returns success False, or raises
UnitBackend(action_id) ==
    /\ unit[action_id].pc = "backend"
    /\ \/ \E catalog_id \in CatalogIds :
              /\ unit' = [unit EXCEPT ![action_id].pc = "finish",
                                      ![action_id].deriva_id = catalog_id]
              /\ UNCHANGED <<store, error_log>>
       \/ Goes(action_id, "unsuccessful")
       \/ Goes(action_id, "report")
    /\ UNCHANGED <<issued, handler, resp, disk>>

\* action_ingest, action_modify: success False is reported by an
\* update_action_status inside the try block of the backend call; if it
\* raises, the except block of that try block reports in its turn
UnitUnsuccessful(action_id) ==
    /\ unit[action_id].pc = "unsuccessful"
    /\ \/ Updated(action_id, error_status) /\ UNCHANGED error_log
       \/ /\ unit' = [unit EXCEPT ![action_id].pc = "report",
                                  ![action_id].attempts = @ + 1,
                                  ![action_id].raised = @ + 1]
          /\ UNCHANGED <<store, error_log>>
    /\ UNCHANGED <<issued, handler, resp, disk>>

\* an except block: update_action_status with error_status, ERROR.log if
\* that raises
UnitReport(action_id) ==
    /\ unit[action_id].pc = "report"
    /\ \/ Updated(action_id, error_status) /\ UNCHANGED error_log
       \/ Logged(action_id)
    /\ UNCHANGED <<issued, handler, resp, disk>>

\* the "Successful ..." block: update_action_status with SUCCEEDED, ERROR.log
\* if that raises
UnitFinish(action_id) ==
    /\ unit[action_id].pc = "finish"
    /\ \/ /\ Updated(action_id, success_status(unit[action_id].deriva_id))
          /\ UNCHANGED error_log
       \/ Logged(action_id)
    /\ UNCHANGED <<issued, handler, resp, disk>>

NextUnit ==
    \/ \E a \in ActionIds : UnitToken(a)
    \/ \E a \in ActionIds : UnitStage(a)
    \/ \E a \in ActionIds : UnitDownload(a)
    \/ \E a \in ActionIds : UnitSchema(a)
    \/ \E a \in ActionIds : UnitTool(a)
    \/ \E a \in ActionIds : UnitParse(a)
    \/ \E a \in ActionIds : UnitBackend(a)
    \/ \E a \in ActionIds : UnitUnsuccessful(a)
    \/ \E a \in ActionIds : UnitReport(a)
    \/ \E a \in ActionIds : UnitFinish(a)

SpecUnit == InitUnit /\ [][NextUnit]_vars

\* every process is scheduled until it returns, and what it waits for (the
\* download, the restore tool, the catalog backend, the table) answers, with
\* a result or with an exception
SpecUnitFair == SpecUnit /\ \A a \in ActionIds : WF_vars(
    \/ UnitToken(a) \/ UnitStage(a) \/ UnitDownload(a) \/ UnitSchema(a)
    \/ UnitTool(a) \/ UnitParse(a) \/ UnitBackend(a) \/ UnitUnsuccessful(a)
    \/ UnitReport(a) \/ UnitFinish(a))

----------------------------------------------------------------------------
\* utils.py: convert_tableschema, applied by an ingest unit to the schema
\* file of its bag

\* CONFIG["DERIVA_SCHEMA_NAME"]
schema_name == "demo"

\* a value that is a str or a list of str
Str(str) == [kind |-> "str", str |-> str]
List(list) == [kind |-> "list", list |-> list]
None == [kind |-> "absent"]

\* cdef without a "type"
NoType == "(no type)"

FieldDef(name, type, unique) == [name |-> name, type |-> type, unique |-> unique]

ForeignKeyDef(fields, resource, reference_fields) ==
    [fields |-> fields,
     reference |-> [resource |-> resource, fields |-> reference_fields]]

TableDef(name, fields, primaryKey, foreignKeys) ==
    [name |-> name, fields |-> fields, primaryKey |-> primaryKey,
     foreignKeys |-> foreignKeys]

TypeLiterals ==
    {"string", "datetime", "integer", "number", "list", "object", NoType}

\* tables that differ in their keys: one or two string fields named a or c,
\* each unique or not, under every form of primaryKey
KeyFields ==
    { FieldDef(n, "string", u) : n \in {"a", "c"}, u \in BOOLEAN }

PrimaryKeys ==
    { None, Str("a"), List(<<>>), List(<<"a">>), List(<<"c">>),
      List(<<"a", "b">>) }

KeyTables ==
    { TableDef("t", fs, pk, <<>>) :
        fs \in [1..1 -> KeyFields] \cup [1..2 -> KeyFields],
        pk \in PrimaryKeys }

\* tables that differ in the types of their one or two fields
TypeTables ==
    { TableDef("t", <<FieldDef("a", ty, FALSE)>>, None, <<>>) :
        ty \in TypeLiterals }
    \cup
    { TableDef("t", <<FieldDef("a", ty1, FALSE), FieldDef("c", ty2, FALSE)>>,
               None, <<>>) :
        ty1 \in TypeLiterals, ty2 \in TypeLiterals }

\* tables that differ in their one foreign key
Columns == { Str("a"), List(<<"a">>), List(<<"a", "c">>) }

ForeignKeyTables ==
    { TableDef("t", <<FieldDef("a", "string", FALSE)>>, None,
               <<ForeignKeyDef(fkcols, resource, pkcols)>>) :
        fkcols \in Columns, resource \in {"", "t2"}, pkcols \in Columns }

\* tables whose field names contain the "_" that the constraint names are
\* joined with: a, b and a_b, each unique or not, under a primary key on
\* a and b or on a_b
UnderscoreTables ==
    { TableDef("t", <<FieldDef("a", "string", u1), FieldDef("b", "string", u2),
                      FieldDef("a_b", "string", u3)>>, pk, <<>>) :
        u1 \in BOOLEAN, u2 \in BOOLEAN, u3 \in BOOLEAN,
        pk \in { List(<<"a", "b">>), List(<<"a_b">>) } }

\* tables with two foreign keys, on the same field or on different ones, to
\* the same table or to different ones
TwoForeignKeyTables ==
    { TableDef("t", <<FieldDef("a", "string", FALSE),
                      FieldDef("c", "string", FALSE)>>, None,
               <<ForeignKeyDef(Str("a"), "t2", Str("a")),
                 ForeignKeyDef(fkcols, resource, pkcols)>>) :
        fkcols \in { Str("a"), Str("c") }, resource \in {"", "t2", "t3"},
        pkcols \in { Str("a"), Str("c") } }

TableDefs ==
    KeyTables \cup TypeTables \cup ForeignKeyTables \cup UnderscoreTables
        \cup TwoForeignKeyTables

\* "_".join(cols)
RECURSIVE join(_)
join(cols) ==
    IF cols = <<>> THEN ""
    ELSE IF Len(cols) = 1 THEN cols[1]
    ELSE cols[1] \o "_" \o join(Tail(cols))

\* [x] if isinstance(x, str) else x
as_list(x) == IF x.kind = "str" THEN <<x.str>> ELSE x.list

make_key(tname, cols, schema) ==
    [unique_columns |-> cols,
     names |-> <<schema, tname \o "_" \o join(cols) \o "_key">>]

\* make_type; ok is FALSE where it raises ValueError("Mapping undefined for
\* type '<col_type>'")
make_type(col_type) ==
    CASE col_type = "string" -> [ok |-> TRUE, typename |-> "text"]
      [] col_type = "datetime" -> [ok |-> TRUE, typename |-> "timestamptz"]
      [] col_type = "integer" -> [ok |-> TRUE, typename |-> "int8"]
      [] col_type = "number" -> [ok |-> TRUE, typename |-> "float8"]
      [] col_type = "list" -> [ok |-> TRUE, typename |-> "text[]"]
      [] OTHER -> [ok |-> FALSE, typename |-> col_type]

\* make_column handing the "type" of the field on as it is
cdef_type_as_given(cdef) == cdef.type

\* cdef.get("type", "string")
cdef_type(cdef) == IF cdef.type = NoType THEN "string" ELSE cdef.type

make_column(cdef) == [name |-> cdef.name, type |-> make_type(cdef_type(cdef))]

\* make_fkey targeting the resource as it is given
pktable_as_given(tname, resource) == resource

\* pktable = tname if pktable == "" else pktable
pktable(tname, resource) == IF resource = "" THEN tname ELSE resource

make_fkey(tname, fkdef, schema) ==
    LET fkcols == as_list(fkdef.fields)
        pkcols == as_list(fkdef.reference.fields)
    IN  [foreign_key_columns |-> fkcols,
         referenced_schema |-> schema,
         referenced_table |-> pktable(tname, fkdef.reference.resource),
         referenced_columns |-> pkcols,
         names |-> <<schema, tname \o "_" \o join(fkcols) \o "_fkey">>]

\* make_table without its keysets
keysets_none(pk) == {}

\* make_table: keysets after the primary key is registered
keysets(pk) ==
    IF pk.kind = "absent" THEN {}
    ELSE {{ pk.list[i] : i \in 1..Len(pk.list) }}

\* make_table; ok is FALSE where make_type raises for one of the columns,
\* error being the literal of the first of them
make_table(tdef, schema) ==
    LET tname == tdef.name
        pk == IF tdef.primaryKey.kind = "str"
              THEN List(<<tdef.primaryKey.str>>)
              ELSE tdef.primaryKey
        column_defs == [i \in 1..Len(tdef.fields) |-> make_column(tdef.fields[i])]
        raising == { i \in 1..Len(column_defs) : ~column_defs[i].type.ok }
        AddsKey(cdef) == cdef.unique /\ {cdef.name} \notin keysets(pk)
        unique == SelectSeq(tdef.fields, AddsKey)
    IN  IF raising # {}
        THEN [ok |-> FALSE,
              error |-> column_defs[CHOOSE i \in raising :
                                       \A j \in raising : i <= j].type.typename]
        ELSE [ok |-> TRUE,
              column_defs |-> column_defs,
              key_defs |->
                  (IF pk.kind = "list" /\ pk.list # <<>>
                   THEN <<make_key(tname, pk.list, schema)>>
                   ELSE <<>>)
                  \o [i \in 1..Len(unique) |->
                         make_key(tname, <<unique[i].name>>, schema)],
              fkey_defs |-> [i \in 1..Len(tdef.foreignKeys) |->
                                make_fkey(tname, tdef.foreignKeys[i], schema)]]

\* nothing compiled yet
NoTable == [absent |-> TRUE]

\* an ingest unit that found the schema file of its bag
SchemaProcess(tableschema) ==
    [pc |-> "schema", op |-> "ingest", tableschema |-> tableschema,
     ermrest |-> NoTable]

InitSchema ==
    /\ unit \in [ActionIds -> { SchemaProcess(t) : t \in TableDefs }]
    /\ store = [a \in ActionIds |-> created(a, unit[a].op)]
    /\ issued = ActionIds
    /\ handler = EmptyBag
    /\ error_log = <<>>
    /\ resp = NoResp
    /\ disk = EmptyDisk

\* the unit compiles the table of its schema file
ConvertTableschema(action_id) ==
    /\ unit[action_id].pc = "schema"
    /\ unit' = [unit EXCEPT
           ![action_id].pc = "converted",
           ![action_id].ermrest =
               make_table(unit[action_id].tableschema, schema_name)]
    /\ UNCHANGED <<store, issued, handler, error_log, resp, disk>>

NextSchema == \E a \in ActionIds : ConvertTableschema(a)

SpecSchema == InitSchema /\ [][NextSchema]_vars

----------------------------------------------------------------------------
\* utils.py: create_action_status, update_action_status and
\* delete_action_status, one step per call of the table, under callers that
\* call them in any order and concurrently: run() creating an Action,
\* a process updating the status of one, release() deleting one

\* a call in flight: the function called, where it stands, its arguments
\* and its locals; deleted tells whether its delete_item removed the record
Call(fn, pc, action_id, updates, overwrite, old_status, raised, deleted) ==
    [fn |-> fn, pc |-> pc, action_id |-> action_id, updates |-> updates,
     overwrite |-> overwrite, old_status |-> old_status, raised |-> raised,
     deleted |-> deleted]

\* what the call answers to its caller: the exception raised or "ok", with
\* the status returned
Returns(me, kind, action) ==
    [op |-> me.fn, at |-> me.pc, aid |-> me.action_id, kind |-> kind,
     action |-> action, seen |-> me.old_status, updates |-> me.updates,
     overwrite |-> me.overwrite, raised |-> me.raised,
     deleted |-> me.deleted]

\* a status handed to update_action_status to replace the record with
Replacement(action_id) ==
    [action_id |-> action_id,
     request_id |-> "r2",
     status |-> "FAILED",
     manage_by |-> {"alice"},
     monitor_by |-> {"bob"},
     creator_id |-> "alice",
     release_after |-> "P30D",
     details |-> [message |-> "none", error |-> "error text",
                  deriva_id |-> NoId]]

\* update_action_status with overwrite ignored
full_updates_merged(updates, old_status, overwrite) ==
    dict_merge(updates, old_status)

\* update_action_status: full_updates
full_updates(updates, old_status, overwrite) ==
    IF ~overwrite THEN dict_merge(updates, old_status) ELSE updates

InitStore ==
    /\ store = [a \in ActionIds |-> NoRecord]
    /\ issued = {}
    /\ handler = EmptyBag
    /\ unit = [a \in ActionIds |-> NoUnit]
    /\ error_log = <<>>
    /\ resp = NoResp
    /\ disk = EmptyDisk

\* create_action_status is being called
Creating == \E me \in BagToSet(handler) : me.fn = "create"

\* generate_action_id: action_id = str(bson.ObjectId()), the first candidate,
\* here any identifier: the loop that follows is there for the candidate
\* that is in the table
GenerateBegin ==
    /\ WorkerFree
    /\ ~Creating
    /\ \E action_id \in ActionIds :
           Begin(Call("create", "generate", action_id, NoRecord, FALSE,
                      NoRecord, FALSE, FALSE))
    /\ Silent
    /\ UNCHANGED <<store, issued, unit, error_log, disk>>

\* generate_action_id: one round of the while True loop: the candidate is
\* read; NotFound breaks the loop, anything found draws another candidate,
\* action_id
GenerateProbe(me, action_id) ==
    /\ me.fn = "create" /\ me.pc = "generate"
    /\ IF read_action_status(me.action_id) = NoRecord
       THEN Continue(me, [me EXCEPT !.pc = "put"])
       ELSE Continue(me, [me EXCEPT !.action_id = action_id])
    /\ Silent
    /\ UNCHANGED <<store, issued, unit, error_log, disk>>

\* create_action_status: the conditional put_item
CreatePut(me) ==
    /\ me.fn = "create" /\ me.pc = "put"
    /\ IF condition_holds(me.action_id)
       THEN /\ store' = [store EXCEPT ![me.action_id] =
                            created(me.action_id, "ingest")]
            /\ issued' = issued \cup {me.action_id}
            /\ Respond(Returns(me, "ok", created(me.action_id, "ingest")))
       ELSE /\ Respond(Returns(me, "ServiceError", NoRecord))
            /\ UNCHANGED <<store, issued>>
    /\ Finish(me)
    /\ UNCHANGED <<unit, error_log, disk>>

\* what the callers hand to update_action_status: the status of a unit that
\* ends, to be merged, or a whole status with overwrite=True
UpdateCalls(action_id) ==
    { [updates |-> u, overwrite |-> FALSE] :
        u \in {success_status(7), error_status} }
    \cup { [updates |-> Replacement(action_id), overwrite |-> TRUE] }

\* update_action_status: old_status = read_action_status(...), which raises
\* NotFound
UpdateRead(action_id, updates, overwrite) ==
    /\ WorkerFree
    /\ LET old_status == read_action_status(action_id)
           me == Call("update", "read", action_id, updates, overwrite,
                      old_status, FALSE, FALSE)
       IN  IF old_status = NoRecord
           THEN /\ Respond(Returns(me, "NotFound", NoRecord))
                /\ UNCHANGED handler
           ELSE /\ Begin([me EXCEPT !.pc = "put"])
                /\ Silent
    /\ UNCHANGED <<store, issued, unit, error_log, disk>>

\* update_action_status: table.put_item(Item=full_updates), which may raise
UpdatePut(me) ==
    /\ me.fn = "update" /\ me.pc = "put"
    /\ LET item == to_item(full_updates(me.updates, me.old_status,
                                        me.overwrite))
       IN  \/ /\ store' = [store EXCEPT ![me.action_id] = item]
              /\ Respond(Returns(me, "ok", item))
           \/ /\ Respond(Returns(me, "ServiceError", NoRecord))
              /\ UNCHANGED store
    /\ Finish(me)
    /\ UNCHANGED <<issued, unit, error_log, disk>>

\* release(), called by alice, up to its call of delete_action_status
ReleaseCheck(action_id) ==
    /\ WorkerFree
    /\ LET status == read_action_status(action_id)
           me == Call("release", "check", action_id, NoRecord, FALSE, status,
                      FALSE, FALSE)
       IN  IF status = NoRecord
           THEN /\ Respond(Returns(me, "NotFound", NoRecord))
                /\ UNCHANGED handler
           ELSE IF ~check_authorization({"alice"}, release_principals(status))
           THEN /\ Respond(Returns(me, "NotAuthorized", NoRecord))
                /\ UNCHANGED handler
           ELSE IF release_refuses(translate_status(status).status)
           THEN /\ Respond(Returns(me, "InvalidState", NoRecord))
                /\ UNCHANGED handler
           ELSE /\ Begin([me EXCEPT !.pc = "delete_read"])
                /\ Silent
    /\ UNCHANGED <<store, issued, unit, error_log, disk>>

\* delete_action_status: "Check that entry exists currently"
DeleteRead(me) ==
    /\ me.fn = "release" /\ me.pc = "delete_read"
    /\ IF read_action_status(me.action_id) = NoRecord
       THEN /\ Respond(Returns(me, "NotFound", NoRecord))
            /\ Finish(me)
       ELSE /\ Continue(me, [me EXCEPT !.pc = "delete_item"])
            /\ Silent
    /\ UNCHANGED <<store, issued, unit, error_log, disk>>

\* delete_action_status: table.delete_item(Key=...) removes the item if there
\* is one, or raises: the except block logs the exception and builds a
\* ServiceError that it does not raise, so that the call goes on
DeleteItem(me) ==
    /\ me.fn = "release" /\ me.pc = "delete_item"
    /\ \/ /\ store' = [store EXCEPT ![me.action_id] = NoRecord]
          /\ Continue(me, [me EXCEPT
                 !.pc = "delete_verify",
                 !.deleted = store[me.action_id] # NoRecord])
       \/ /\ UNCHANGED store
          /\ Continue(me, [me EXCEPT !.pc = "delete_verify",
                                     !.raised = TRUE])
    /\ Silent
    /\ UNCHANGED <<issued, unit, error_log, disk>>

\* delete_action_status: "Verify deletion"; release() then returns the status
\* it read first
DeleteVerify(me) ==
    /\ me.fn = "release" /\ me.pc = "delete_verify"
    /\ IF read_action_status(me.action_id) = NoRecord
       THEN Respond(Returns(me, "ok", translate_status(me.old_status)))
       ELSE Respond(Returns(me, "InternalError", NoRecord))
    /\ Finish(me)
    /\ UNCHANGED <<store, issued, unit, error_log, disk>>

NextStore ==
    \/ GenerateBegin
    \/ \E me \in BagToSet(handler), a \in ActionIds : GenerateProbe(me, a)
    \/ \E me \in BagToSet(handler) : CreatePut(me)
    \/ \E a \in ActionIds : \E call \in UpdateCalls(a) :
           UpdateRead(a, call.updates, call.overwrite)
    \/ \E me \in BagToSet(handler) : UpdatePut(me)
    \/ \E a \in ActionIds : ReleaseCheck(a)
    \/ \E me \in BagToSet(handler) : DeleteRead(me)
    \/ \E me \in BagToSet(handler) : DeleteItem(me)
    \/ \E me \in BagToSet(handler) : DeleteVerify(me)

SpecStore == InitStore /\ [][NextStore]_vars

\* a call of generate_action_id is scheduled until it returns, the table
\* answers each of its reads, and no identifier is drawn never
SpecStoreFair ==
    SpecStore /\ \A a \in ActionIds :
        WF_vars(\E me \in BagToSet(handler) : GenerateProbe(me, a))

----------------------------------------------------------------------------
\* Properties

Terminal == {"SUCCEEDED", "FAILED"}

\* the records of the table that carry the request_id
Matches(request_id) ==
    { a \in ActionIds : store[a] # NoRecord /\ store[a].request_id = request_id }

\* the step just taken answered a request to route op
Answered(op) == resp # NoResp /\ resp.op = op

\* the body lacks a field its operation requires
MissingRequired(body) ==
    \/ body.operation \in {"ingest", "restore"} /\ ~body.data_url
    \/ body.operation = "modify"
       /\ (body.catalog_id = "none" \/ ~body.catalog_acls)

\* C1: in every reachable state of the store at most one Action record
\* exists per request_id, also when two callers race on one request_id.
C1_AtMostOneActionPerRequest ==
    \A r \in RequestIds : Cardinality(read_action_by_request(r)) <= 1

\* C2: a submit answered with an Action returns the one Action persisted
\* under its request_id: submissions sharing a request_id get the identical
\* action_id and no second record is persisted.
C2_SubmitsShareOneAction ==
    Answered("run") /\ resp.kind = "ok"
        => read_action_by_request(resp.rid) = {resp.aid}

\* C3: a submit whose conditional create finds the record already there is
\* answered with the winner's Action, never with an error.
C3_LostRaceNotSurfaced ==
    Answered("run") /\ resp.at = "create" => resp.kind # "ServiceError"

\* C4 as claimed: a submit whose request_id matches an existing Action
\* returns that Action whatever its body, never InvalidRequest.
C4_ReplaySkipsValidation ==
    Answered("run") /\ resp.at = "lookup"
    /\ Cardinality(read_action_by_request(resp.rid)) = 1
        => resp.kind = "ok" /\ resp.aid \in read_action_by_request(resp.rid)

\* C4 as amended: run checks the body before it looks the request_id up: a
\* body missing a required field is answered InvalidRequest also on a replay;
\* a replay whose body passes the checks returns the existing Action.
C4_ReplayValidatesFirst ==
    Answered("run") /\ resp.at = "lookup" =>
        LET found == read_action_by_request(resp.rid)
        IN  /\ MissingRequired(resp.body) => resp.kind = "InvalidRequest"
            /\ ~MissingRequired(resp.body) /\ Cardinality(found) = 1
                   => /\ resp.kind = "ok"
                      /\ resp.aid \in found
                      /\ resp.action = translate_status(store[resp.aid])

\* a replay with a body missing its data_url was answered InvalidRequest
C4_Witness ==
    /\ Answered("run") /\ resp.at = "lookup"
    /\ MissingRequired(resp.body)
    /\ read_action_by_request(resp.rid) # {}
    /\ resp.kind = "InvalidRequest"

\* C5: getStatus on an existing Action returns the Action if and only if
\* the caller's identities intersect monitor_by; otherwise NotAuthorized,
\* also for a caller in manage_by.
C5_StatusIffMonitor ==
    Answered("status") /\ resp.seen # NoRecord =>
        IF resp.caller \cap resp.seen.monitor_by # {}
        THEN resp.kind = "ok" /\ resp.action.action_id = resp.aid
             /\ resp.action.status = resp.seen.status
        ELSE resp.kind = "NotAuthorized"

\* a caller in manage_by but not in monitor_by was refused the status
C5_Witness ==
    /\ Answered("status") /\ resp.seen # NoRecord
    /\ resp.caller \cap resp.seen.manage_by # {}
    /\ resp.caller \cap resp.seen.monitor_by = {}
    /\ resp.kind = "NotAuthorized"

\* C6: cancel and release on an existing Action answer NotAuthorized
\* whenever the caller's identities do not intersect manage_by, whatever
\* monitor_by and the status are, and leave the store unchanged.
C6_ManageGate ==
    [][ ( /\ resp' # NoResp
          /\ resp'.op \in {"cancel", "release"}
          /\ resp'.at \in {"check", "-"}
          /\ resp'.seen # NoRecord
          /\ resp'.caller \cap resp'.seen.manage_by = {} )
        => (resp'.kind = "NotAuthorized" /\ store' = store) ]_vars

\* a caller in monitor_by but not in manage_by was refused the release of a
\* completed Action
C6_Witness ==
    /\ Answered("release") /\ resp.seen # NoRecord
    /\ resp.caller \cap resp.seen.manage_by = {}
    /\ resp.caller \cap resp.seen.monitor_by # {}
    /\ resp.seen.status \in Terminal
    /\ resp.kind = "NotAuthorized"

C8_CancelReturnsChecked ==
    Answered("cancel") /\ resp.at = "reread"
        => resp.kind = "ok" /\ resp.action = translate_status(resp.seen)

\* C8 as amended: cancel by an authorized caller answers InvalidState when
\* the status it reads is terminal; otherwise it reads the record again
\* after the no-op cancel_action and returns what it then finds: the record
\* stored under the action_id at that moment (which may carry a terminal
\* status written meanwhile by the owning unit), or NotFound when the
\* record was released meanwhile.
C8_CancelReturnsReread ==
    Answered("cancel") /\ resp.seen # NoRecord
    /\ resp.caller \cap resp.seen.manage_by # {} =>
        IF resp.seen.status \in Terminal
        THEN resp.kind = "InvalidState"
        ELSE /\ resp.at = "reread"
             /\ IF store[resp.aid] = NoRecord
                THEN resp.kind = "NotFound"
                ELSE /\ resp.kind = "ok"
                     /\ resp.action = translate_status(store[resp.aid])

\* a cancel that checked an ACTIVE status returned SUCCEEDED
C8_Witness ==
    /\ Answered("cancel") /\ resp.kind = "ok"
    /\ resp.seen.status = "ACTIVE"
    /\ resp.action.status = "SUCCEEDED"

\* C9: every Action is created ACTIVE; the only status changes made to a
\* record are ACTIVE to SUCCEEDED and ACTIVE to FAILED; a record in a
\* terminal state never changes status; nothing sets INACTIVE.
C9_StatusMonotonic ==
    [][ \A a \in ActionIds :
            /\ store[a] = NoRecord /\ store'[a] # NoRecord
                   => store'[a].status = "ACTIVE"
            /\ store[a] # NoRecord /\ store'[a] # NoRecord
               /\ store'[a].status # store[a].status
                   => store[a].status = "ACTIVE"
                      /\ store'[a].status \in Terminal
            /\ store'[a] # NoRecord => store'[a].status # "INACTIVE" ]_vars

\* both transitions were taken: one Action SUCCEEDED, another FAILED
C9_Witness ==
    \E a, b \in ActionIds :
        /\ store[a] # NoRecord /\ store[a].status = "SUCCEEDED"
        /\ store[b] # NoRecord /\ store[b].status = "FAILED"

\* C10: a record is modified only by the execution unit that owns its
\* action_id; getStatus, cancel and a replayed submit leave every record of
\* the store unchanged.
C10_SingleWriter ==
    [][ /\ \A a \in ActionIds :
               store[a] # NoRecord /\ store'[a] # NoRecord
               /\ store'[a] # store[a]
                   => unit[a].pc = "put" /\ unit'[a].pc = "end"
        /\ ( /\ resp' # NoResp
             /\ \/ resp'.op \in {"status", "cancel"}
                \/ resp'.op = "run" /\ resp'.at = "lookup" )
           => store' = store ]_vars

\* a cancel was answered with an Action while the unit owning it is running
C10_Witness ==
    /\ Answered("cancel") /\ resp.kind = "ok"
    /\ unit[resp.aid].pc = "run"
    /\ store[resp.aid] = resp.seen

\* C11: every action_id that was ever persisted has had an execution unit
\* started for it, also when the body names a known catalog keyword with a
\* server that does not match.
C11_UnitPerAction ==
    \A a \in issued : unit[a].pc # "none"

\* C14: manage_by and monitor_by of every persisted Action are non-empty,
\* whether defaulted to the caller's identities or overridden by the request.
C14_PrincipalsNonEmpty ==
    \A a \in ActionIds :
        store[a] # NoRecord =>
            store[a].manage_by # {} /\ store[a].monitor_by # {}

C16_ActionIdNeverReused ==
    [][ \A a \in ActionIds :
            store[a] = NoRecord /\ store'[a] # NoRecord
                => a \notin issued ]_vars

\* C12: no execution unit ends without having attempted a write of a
\* terminal status, whichever stage failed (credential resolution included).
C12_EveryUnitAttemptsWrite ==
    \A a \in ActionIds :
        unit[a].pc \in {"end", "dead"} => unit[a].attempts >= 1

\* C13 as claimed: whenever a unit's write of its terminal status fails, the
\* failure is recorded in ERROR.log and the record is left ACTIVE, unchanged.
C13_FailedWriteLogged ==
    [][ \A a \in ActionIds :
            unit'[a].raised > unit[a].raised
                => /\ error_log' = <<a>>
                   /\ store' = store
                   /\ store'[a].status = "ACTIVE" ]_vars

\* C13 as amended: a failing write of the terminal status leaves the record
\* unchanged and ACTIVE. The failure is recorded in ERROR.log and the unit
\* ends, except for the write that reports success False of the catalog
\* backend (ingest, modify): its failure is handled like an exception of the
\* backend call, nothing is recorded and FAILED is written a second time.
C13_FailedWriteLoggedOrRetried ==
    [][ \A a \in ActionIds :
            unit'[a].raised > unit[a].raised
                => /\ store' = store
                   /\ store'[a].status = "ACTIVE"
                   /\ IF unit[a].pc = "unsuccessful"
                      THEN error_log' = error_log /\ unit'[a].pc = "report"
                      ELSE error_log' = <<a>> /\ unit'[a].pc = "end" ]_vars

\* a unit whose first write failed unrecorded ended with FAILED in its
\* record, while another unit's failed write is the one in ERROR.log
C13_Witness ==
    \E a, b \in ActionIds :
        /\ unit[a].pc = "end" /\ unit[a].raised = 1 /\ unit[a].attempts = 2
        /\ store[a].status = "FAILED"
        /\ unit[b].pc = "end" /\ unit[b].raised = 1 /\ unit[b].attempts = 1
        /\ store[b].status = "ACTIVE"
        /\ error_log = <<b>>

\* the output has "completed successfully" after a "Restore of catalog"
\* marker, and the last path segment of the text between them is the
\* numeral of deriva_id
MarkedSuccess(restore_message, deriva_id) ==
    \E i, j \in 1..Len(restore_message) :
        /\ i < j
        /\ restore_message[i] = "R"
        /\ restore_message[j] = "CS"
        /\ LET segment == split_last(SubSeq(restore_message, i + 1, j - 1), "/")
           IN  /\ Len(segment) = 1
               /\ segment[1] \in Numerals
               /\ int(segment[1]) = deriva_id

\* C20: a restore unit goes on to report a catalog identifier only when its
\* tool's output has the success marker after a "Restore of catalog" marker
\* with an integer as last path segment between them; on any other output
\* it goes on to write FAILED.
C20_IdOnlyFromMarkedOutput ==
    \A a \in ActionIds :
        unit[a].op = "restore" /\ unit[a].pc \in {"finish", "report"}
        /\ unit[a].restore_message # <<>>
            => ( unit[a].pc = "finish"
                   <=> MarkedSuccess(unit[a].restore_message,
                                     unit[a].deriva_id) )

\* the unit has compiled its table
Converted(a) == unit[a].pc = "converted"

\* C17: the compiled keys are the primary key first, if there is one, then
\* one singleton key per field marked unique, in the order of the fields,
\* except for a unique field whose single-field set is the field set of the
\* primary key: primaryKey [a] with unique a gives one key, primaryKey [a,b]
\* with unique c gives two.
C17_KeysDeduplicated ==
    \A a \in ActionIds :
        Converted(a) /\ unit[a].ermrest.ok =>
            LET tdef == unit[a].tableschema
                keys == unit[a].ermrest.key_defs
                primary == IF tdef.primaryKey.kind = "absent" THEN <<>>
                           ELSE as_list(tdef.primaryKey)
                offset == IF primary # <<>> THEN 1 ELSE 0
                Adds(k) ==
                    /\ tdef.fields[k].unique
                    /\ {tdef.fields[k].name}
                           # { primary[i] : i \in 1..Len(primary) }
                added(k) == Cardinality({ j \in 1..k : Adds(j) })
            IN  /\ Len(keys) = offset + added(Len(tdef.fields))
                /\ primary # <<>> => keys[1].unique_columns = primary
                /\ \A k \in 1..Len(tdef.fields) :
                       Adds(k) => keys[offset + added(k)].unique_columns
                                      = <<tdef.fields[k].name>>

\* primaryKey [a] with a unique field a was compiled to one key, and
\* primaryKey [a,b] with a unique field c to two
C17_Witness ==
    \E a, b \in ActionIds :
        /\ Converted(a)
        /\ unit[a].tableschema.primaryKey = List(<<"a">>)
        /\ unit[a].tableschema.fields = <<FieldDef("a", "string", TRUE)>>
        /\ Len(unit[a].ermrest.key_defs) = 1
        /\ Converted(b)
        /\ unit[b].tableschema.primaryKey = List(<<"a", "b">>)
        /\ unit[b].tableschema.fields = <<FieldDef("c", "string", TRUE)>>
        /\ Len(unit[b].ermrest.key_defs) = 2

\* the type mapping of the specification
TypeMapping ==
    ("string" :> "text") @@ ("datetime" :> "timestamptz")
    @@ ("integer" :> "int8") @@ ("number" :> "float8")
    @@ ("list" :> "text[]")

\* the table compiles to columns of the mapped types if each of the types
\* (one per field) is one of the five, and fails naming the first other type
\* if not
MapsTypes(types, ermrest) ==
    LET others == { k \in 1..Len(types) : types[k] \notin DOMAIN TypeMapping }
    IN  IF others = {}
        THEN /\ ermrest.ok
             /\ \A k \in 1..Len(types) :
                    ermrest.column_defs[k].type.typename
                        = TypeMapping[types[k]]
        ELSE /\ ~ermrest.ok
             /\ ermrest.error
                    = types[CHOOSE k \in others : \A j \in others : k <= j]

\* the "type" of each field, none counting as no type of the mapping
GivenTypes(tdef) == [k \in 1..Len(tdef.fields) |-> tdef.fields[k].type]

\* the "type" of each field, none counting as "string"
TypesOrString(tdef) ==
    [k \in 1..Len(tdef.fields) |->
        IF tdef.fields[k].type = NoType THEN "string"
        ELSE tdef.fields[k].type]

\* C18 as claimed: string, datetime, integer, number and list compile to
\* text, timestamptz, int8, float8 and text[]; a field with any other type,
\* or none, makes the compilation fail: there is no default.
C18_NoDefaultType ==
    \A a \in ActionIds :
        Converted(a) =>
            MapsTypes(GivenTypes(unit[a].tableschema), unit[a].ermrest)

\* C18 as amended: the mapping is as claimed and any other type literal
\* makes the compilation fail naming that literal, but a field without a
\* type is compiled as a string field, to text.
C18_TypeDefaultsToString ==
    \A a \in ActionIds :
        Converted(a) =>
            MapsTypes(TypesOrString(unit[a].tableschema), unit[a].ermrest)

\* a field without a type was compiled to a text column, and a table with a
\* field of type object failed to compile naming "object"
C18_Witness ==
    \E a, b \in ActionIds :
        /\ Converted(a)
        /\ unit[a].tableschema.fields = <<FieldDef("a", NoType, FALSE)>>
        /\ unit[a].ermrest.ok
        /\ unit[a].ermrest.column_defs[1].type.typename = "text"
        /\ Converted(b)
        /\ unit[b].tableschema.fields
               = <<FieldDef("a", "integer", FALSE), FieldDef("c", "object", FALSE)>>
        /\ ~unit[b].ermrest.ok
        /\ unit[b].ermrest.error = "object"

\* a foreign key with its bare names written as one-element lists
ListForm(fkdef) ==
    LET listed(x) == IF x.kind = "str" THEN List(<<x.str>>) ELSE x
    IN  [fields |-> listed(fkdef.fields),
         reference |-> [resource |-> fkdef.reference.resource,
                        fields |-> listed(fkdef.reference.fields)]]

\* C19: a foreign key with an empty reference.resource targets the table
\* that defines it, any other the named table; local and referenced fields
\* given as a bare name become one-element lists, so that the shorthand and
\* the list form compile to the same foreign key.
C19_ForeignKeyNormalized ==
    \A a \in ActionIds :
        Converted(a) /\ unit[a].ermrest.ok =>
            LET tdef == unit[a].tableschema
                fkeys == unit[a].ermrest.fkey_defs
                columns(x) == IF x.kind = "str" THEN <<x.str>> ELSE x.list
            IN  /\ Len(fkeys) = Len(tdef.foreignKeys)
                /\ \A i \in 1..Len(fkeys) :
                       LET fkdef == tdef.foreignKeys[i]
                       IN  /\ fkeys[i].referenced_table
                                  = IF fkdef.reference.resource = ""
                                    THEN tdef.name
                                    ELSE fkdef.reference.resource
                           /\ fkeys[i].foreign_key_columns
                                  = columns(fkdef.fields)
                           /\ fkeys[i].referenced_columns
                                  = columns(fkdef.reference.fields)
                           /\ fkeys[i] = make_fkey(tdef.name, ListForm(fkdef),
                                                   schema_name)

\* a foreign key given by bare names with an empty resource was compiled to
\* one on the table itself with one-element column lists
C19_Witness ==
    \E a \in ActionIds :
        /\ Converted(a)
        /\ unit[a].tableschema.foreignKeys
               = <<ForeignKeyDef(Str("a"), "", Str("a"))>>
        /\ unit[a].ermrest.fkey_defs[1].referenced_table = "t"
        /\ unit[a].ermrest.fkey_defs[1].foreign_key_columns = <<"a">>
        /\ unit[a].ermrest.fkey_defs[1].referenced_columns = <<"a">>

\* C21: in every status submit, getStatus, cancel or release returns to a
\* caller, a catalog identifier present in the details is a plain integer,
\* whatever its value (0 included), never the Decimal of the table.
C21_IdentifierIsPlainInteger ==
    ( /\ resp # NoResp
      /\ resp.op \in {"run", "status", "cancel", "release"}
      /\ resp.kind = "ok"
      /\ resp.action.details.deriva_id.tag # "none" )
        => resp.action.details.deriva_id.tag = "int"

C26_ExactlyOneSchemaFile ==
    \A a \in ActionIds :
        unit[a].op = "ingest" /\ unit[a].schema_file # "File not found"
            => Len(disk.data_dir[a]) = 1

\* C27: whatever the interleaving of two running units, the file a restore
\* unit hands to deriva-restore-cli is the one that unit downloaded.
C27_ToolGetsOwnDownload ==
    [][ \A a \in ActionIds :
            unit[a].pc = "tool" /\ unit'[a].pc = "parse"
                => disk.backup = a ]_vars

\* C28: ERROR.log holds an entry for every unit whose write of its terminal
\* status failed and was reported there, none replaced by a later one.
C28_EveryFailedWriteInLog ==
    \A a \in ActionIds :
        unit[a].pc = "end" /\ store[a].status = "ACTIVE"
            => \E i \in 1..Len(error_log) : error_log[i] = a

\* C29: with its steps fairly scheduled and its collaborators returning, the
\* Action of every unit eventually is SUCCEEDED or FAILED unless one of the
\* unit's writes of the status failed.
C29_EventuallyTerminal ==
    \A a \in ActionIds :
        <>(store[a].status \in Terminal \/ unit[a].raised > 0)

\* C23: delete_action_status raises NotFound when the record is absent,
\* returns normally only if the read after delete_item finds no record, and
\* never returns normally when delete_item itself failed.
C23_DeleteFailureReported ==
    Answered("release")
    /\ resp.at \in {"delete_read", "delete_item", "delete_verify"} =>
        /\ resp.at = "delete_read"
               => resp.kind = "NotFound" /\ store[resp.aid] = NoRecord
        /\ resp.kind = "ok" => store[resp.aid] = NoRecord
        /\ resp.raised => resp.kind # "ok"

\* C24: update_action_status raises NotFound when there is no record, in
\* either mode; merging, it stores the record it read with the status of the
\* patch and with the details of the patch added to those it read, every
\* other field (action_id, request_id, manage_by, monitor_by, creator_id,
\* release_after) as read; with overwrite it stores the patch as the record.
C24_UpdateMergesOrReplaces ==
    Answered("update") =>
        IF resp.seen = NoRecord
        THEN resp.kind = "NotFound" /\ store[resp.aid] = NoRecord
        ELSE resp.kind = "ok" =>
             LET new == store[resp.aid]
                 old == resp.seen
                 patch == resp.updates
                 merged(key) == IF patch.details[key] # "none"
                                THEN patch.details[key]
                                ELSE old.details[key]
             IN  IF resp.overwrite
                 THEN new = to_item(patch)
                 ELSE /\ new.action_id = old.action_id
                      /\ new.request_id = old.request_id
                      /\ new.manage_by = old.manage_by
                      /\ new.monitor_by = old.monitor_by
                      /\ new.creator_id = old.creator_id
                      /\ new.release_after = old.release_after
                      /\ new.status = patch.status
                      /\ new.details.message = merged("message")
                      /\ new.details.error = merged("error")
                      /\ IF patch.details.deriva_id # NoId
                         THEN new.details.deriva_id.val
                                  = patch.details.deriva_id.val
                         ELSE new.details.deriva_id = old.details.deriva_id

\* the SUCCEEDED status of a unit was merged into a record that had been
\* replaced as a whole: the record kept the request_id and the monitor_by
\* of the replacement and got the status and the details of the patch
C24_Witness ==
    /\ Answered("update") /\ resp.kind = "ok" /\ ~resp.overwrite
    /\ resp.updates = success_status(7)
    /\ resp.seen = Replacement(resp.aid)
    /\ store[resp.aid].request_id = "r2"
    /\ store[resp.aid].monitor_by = {"bob"}
    /\ store[resp.aid].status = "SUCCEEDED"
    /\ store[resp.aid].details.error = "False"

\* generate_action_id is in its loop
Generating ==
    \E me \in BagToSet(handler) : me.fn = "create" /\ me.pc = "generate"

\* C25: generate_action_id always terminates: a call that is in its loop
\* leaves it, with an identifier or, when every candidate collides, with
\* ServiceError after a bounded number of rounds.
C25_GenerateTerminates == Generating ~> ~Generating

\* C30: of the release calls on one Action, whatever their interleaving,
\* only the one whose delete_item removed the record returns the status;
\* every other call fails.
C30_AtMostOneReleaseSucceeds ==
    Answered("release") /\ resp.kind = "ok" /\ ~resp.raised
        => resp.deleted

\* the record of action_id was stored and release has deleted it (in the
\* model of the routes nothing but release removes a record)
Released(action_id) == action_id \in issued /\ store[action_id] = NoRecord

\* C31: once release has deleted an Action, no step brings a record back
\* under its action_id (neither a create nor the put_item of a unit's status
\* update), and every getStatus, cancel and release answered on it fails
\* NotFound.
C31_ReleasedNeverReappears ==
    [][ \A a \in ActionIds :
            Released(a) =>
                /\ store'[a] = NoRecord
                /\ (/\ resp' # NoResp
                    /\ resp'.op \in {"status", "cancel", "release"}
                    /\ resp'.aid = a) => resp'.kind = "NotFound" ]_vars

\* C32: the constraints of a compiled table have names of their own: two keys
\* on different ordered field lists never share a _key name, and two foreign
\* keys that differ in the table they reference or in their fields never
\* share a _fkey name.
C32_DistinctConstraintNames ==
    \A a \in ActionIds :
        unit[a].pc = "converted" /\ unit[a].ermrest.ok =>
            LET key_defs == unit[a].ermrest.key_defs
                fkey_defs == unit[a].ermrest.fkey_defs
            IN  /\ \A i, j \in DOMAIN key_defs :
                       key_defs[i].unique_columns # key_defs[j].unique_columns
                           => key_defs[i].names # key_defs[j].names
                /\ \A i, j \in DOMAIN fkey_defs :
                       (\/ fkey_defs[i].referenced_table
                               # fkey_defs[j].referenced_table
                        \/ fkey_defs[i].foreign_key_columns
                               # fkey_defs[j].foreign_key_columns
                        \/ fkey_defs[i].referenced_columns
                               # fkey_defs[j].referenced_columns)
                           => fkey_defs[i].names # fkey_defs[j].names

====
